---- MODULE Spec2Model ----
(***************************************************************************)
(* Park Master Pro backend (src/server/server.js): whole-file JSON         *)
(* documents on a local disk, an optional Supabase object mirroring the    *)
(* aggregate backup, the startup restore and the REST handlers.            *)
(*                                                                         *)
(* JSON values are tagged records: [t |-> "array", v |-> <<...>>],         *)
(* [t |-> "object", v |-> [field |-> ...]] (or "record" when the fields are *)
(* strings), [t |-> "null"], and the                                       *)
(* JavaScript value undefined is [t |-> "undefined"].  The records held in *)
(* a collection array are plain TLA+ records of strings; a property whose  *)
(* value is the JavaScript undefined holds the string Undefined.  A file   *)
(* (and a response body) holds the text JSON.stringify produced, modelled  *)
(* as [text |-> value the text denotes].                                   *)
(*                                                                         *)
(* A handler runs as one action (requests are handled one after another),  *)
(* except in the section on concurrent requests, where each await of a     *)
(* handler is a step.  fs.writeFile may reject: every handler takes a      *)
(* fault, the file whose write is rejected ("none": no write is rejected). *)
(***************************************************************************)
EXTENDS Integers, Sequences, FiniteSets

VARIABLES
  dataDir,    \* TRUE when the DATA_DIR directory exists
  disk,       \* the files of DATA_DIR: file name -> text
  supabase,   \* TRUE when the Supabase client was created (line 26)
  remote,     \* the objects of the Supabase bucket: object name -> text
  pc,         \* position of startServer / state of the process
  down,       \* startServer's local  down  (result of the startup pull)
  console,    \* the line startServer logged about the restore
  now,        \* the millisecond clock, Date.now()
  last,       \* the last request handled and its response
  requests    \* the requests handled concurrently: each one's position and response

vars == <<dataDir, disk, supabase, remote, pc, down, console, now, last, requests>>

-----------------------------------------------------------------------------
(* Data file paths, lines 16-20 *)
VEHICLES_FILE == "vehicles.json"
PERMANENT_CLIENTS_FILE == "permanent-clients.json"
SETTINGS_FILE == "settings.json"
DAILY_STATS_FILE == "daily-stats.json"
BACKUP_FILE == "backup.json"

Files == {VEHICLES_FILE, PERMANENT_CLIENTS_FILE, SETTINGS_FILE, DAILY_STATS_FILE, BACKUP_FILE}

(* The object key used with the bucket, lines 64 and 81 *)
BACKUP_OBJECT == "backup.json"

(* The outcomes of one handler's writes: the file whose fs.writeFile rejects, *)
(* among the files the handler may write.                                    *)
Faults(files) == {"none"} \cup files

-----------------------------------------------------------------------------
(* JSON values *)
JArr(s) == [t |-> "array", v |-> s]
JObj(r) == [t |-> "object", v |-> r]
\* an object whose properties are strings, as the records of a collection are
JRec(r) == [t |-> "record", v |-> r]
JNull == [t |-> "null"]
JUndefined == [t |-> "undefined"]
Undefined == "<undefined>"
EmptyRecord == [k \in {} |-> Undefined]

\* obj.key on a JSON object: undefined when the object has no such property
Prop(obj, key) ==
  IF obj.t = "object" /\ key \in DOMAIN obj.v THEN obj.v[key] ELSE JUndefined

\* the JavaScript truth test  if (x)  on a JSON value: null and undefined are
\* falsy, every array and every object (the empty ones too) is truthy
Truthy(x) == x.t \notin {"null", "undefined"}

\* rec.key on a record of a collection
Field(rec, key) == IF key \in DOMAIN rec THEN rec[key] ELSE Undefined

\* { ...a, ...b }
Spread(a, b) ==
  [k \in DOMAIN a \cup DOMAIN b |-> IF k \in DOMAIN b THEN b[k] ELSE a[k]]

\* JSON.stringify leaves out the properties whose value is undefined
DropUndefined(rec) == [k \in {f \in DOMAIN rec : rec[f] # Undefined} |-> rec[k]]

\* JSON.stringify(data, null, 2): the text; only the records of an array can
\* hold an undefined property here (request bodies are parsed JSON)
JsonStringify(data) ==
  [text |-> CASE data.t = "array" ->
                   JArr([i \in DOMAIN data.v |-> DropUndefined(data.v[i])])
              [] data.t = "record" -> JRec(DropUndefined(data.v))
              [] OTHER -> data]

\* JSON.parse(text)
JsonParse(text) == text.text

-----------------------------------------------------------------------------
(* Document store, lines 40-55.  st = [disk, threw]: the files and whether   *)
(* an exception is propagating (then the remaining statements are skipped). *)

Put(files, name, text) ==
  [f \in DOMAIN files \cup {name} |-> IF f = name THEN text ELSE files[f]]

\* lines 53-55
writeJsonFile(st, filePath, data, fault) ==
  IF st.threw THEN st
  ELSE IF fault = filePath THEN [st EXCEPT !.threw = TRUE]
  ELSE [st EXCEPT !.disk = Put(st.disk, filePath, JsonStringify(data))]

readJsonFileNoMaterialize(st, filePath, defaultValue, fault) ==
  IF st.threw THEN [disk |-> st.disk, threw |-> TRUE, value |-> JUndefined]
  ELSE IF filePath \in DOMAIN st.disk
  THEN [disk |-> st.disk, threw |-> FALSE, value |-> JsonParse(st.disk[filePath])]
  ELSE [disk |-> st.disk, threw |-> FALSE, value |-> defaultValue]

\* lines 40-51: [disk, threw, value]
readJsonFile(st, filePath, defaultValue, fault) ==
  IF st.threw THEN [disk |-> st.disk, threw |-> TRUE, value |-> JUndefined]
  ELSE IF filePath \in DOMAIN st.disk
  THEN [disk |-> st.disk, threw |-> FALSE, value |-> JsonParse(st.disk[filePath])]
  ELSE LET w == writeJsonFile(st, filePath, defaultValue, fault)
       IN  [disk |-> w.disk, threw |-> w.threw,
            value |-> IF w.threw THEN JUndefined ELSE defaultValue]

Start(files) == [disk |-> files, threw |-> FALSE]

-----------------------------------------------------------------------------
(* Supabase helpers, lines 58-93.  net is what the storage call meets:      *)
(* "ok" (the service answers) or "error" (the call fails); without a client *)
(* no call is made.                                                         *)
Nets == IF supabase THEN {"ok", "error"} ELSE {"ok"}

\* the regular expression of line 87
MatchesNotFound(message) == message \in {"Object not found"}

\* supabase.storage.from(bucket).download('backup.json'): {data, error}
StorageDownload(objects, net) ==
  IF net = "error" THEN [error |-> "fetch failed"]
  ELSE IF BACKUP_OBJECT \notin DOMAIN objects THEN [error |-> "Object not found"]
  ELSE [error |-> "", data |-> objects[BACKUP_OBJECT]]

\* lines 58-74: [res, objects]
uploadBackupToSupabase(objects, backupData, net) ==
  IF ~supabase
  THEN [res |-> [ok |-> FALSE, reason |-> "supabase_not_configured"], objects |-> objects]
  ELSE IF net = "error"
  THEN [res |-> [ok |-> FALSE, reason |-> "upload_failed"], objects |-> objects]
  ELSE [res |-> [ok |-> TRUE, reason |-> ""],
        objects |-> Put(objects, BACKUP_OBJECT, JsonStringify(backupData))]

\* lines 76-93
downloadBackupFromSupabase(objects, net) ==
  IF ~supabase THEN [ok |-> FALSE, reason |-> "supabase_not_configured"]
  ELSE LET got == StorageDownload(objects, net)
       IN  IF got.error = ""
           THEN [ok |-> TRUE, reason |-> "", data |-> JsonParse(got.data)]
           ELSE IF MatchesNotFound(got.error)
           THEN [ok |-> FALSE, reason |-> "not_found"]
           ELSE [ok |-> FALSE, reason |-> "download_failed"]


-----------------------------------------------------------------------------
(* Default settings, lines 96-108 *)
defaultSettings ==
  JObj([siteName |-> "Park Master Pro",
        pricing |-> [car |-> [baseHours |-> 2, baseFee |-> 50, extraHourFee |-> 25],
                     bike |-> [baseHours |-> 2, baseFee |-> 20, extraHourFee |-> 10],
                     rickshaw |-> [baseHours |-> 2, baseFee |-> 30, extraHourFee |-> 15]],
        credentials |-> [username |-> "admin", password |-> "admin123"],
        viewMode |-> "grid"])

(* The clock.  MaxTime caps it. *)
MaxTime == 2

Digit(n) == <<"0", "1", "2", "3", "4", "5", "6", "7", "8", "9">>[n + 1]

\* Date.now().toString(), lines 143 and 191: the decimal digits
RECURSIVE ToString(_)
ToString(n) == IF n < 10 THEN Digit(n) ELSE ToString(n \div 10) \o Digit(n % 10)

\* new Date().toISOString(), lines 144 and 165, in the first seconds of the epoch
ToISOString(n) ==
  "1970-01-01T00:00:0" \o ToString(n \div 1000) \o "."
    \o Digit((n \div 100) % 10) \o Digit((n \div 10) % 10) \o Digit(n % 10) \o "Z"

(* Values the requests of the model carry *)
OtherSettings ==
  JObj([defaultSettings.v EXCEPT !.siteName = "Lot 7",
                                 !.credentials = [username |-> "owner", password |-> "s3cret"]])
SampleVehicles ==
  JArr(<<[plate |-> "LEA-1", id |-> ToString(1), entryTime |-> ToISOString(1)]>>)
SampleClients ==
  JArr(<<[name |-> "Ali", id |-> ToString(2), isPermanent |-> "true",
          paymentStatus |-> "unpaid", entryTime |-> ToISOString(2)]>>)
SampleStats == JArr(<<[date |-> "2024-01-01", revenue |-> "50"]>>)

SnapshotFields == {"vehicles", "permanentClients", "settings", "dailyStats"}

\* the live document of each field of a snapshot, lines 292-303 and 349-352
FileOf(field) ==
  CASE field = "vehicles" -> VEHICLES_FILE
    [] field = "permanentClients" -> PERMANENT_CLIENTS_FILE
    [] field = "settings" -> SETTINGS_FILE
    [] field = "dailyStats" -> DAILY_STATS_FILE

(* The request bodies of POST /api/backup: every field populated, every      *)
(* field populated with empty collections, and a field that is null beside  *)
(* populated and missing ones.                                              *)
FullSnapshot ==
  JObj([vehicles |-> SampleVehicles, permanentClients |-> SampleClients,
        settings |-> defaultSettings, dailyStats |-> SampleStats])
EmptyCollectionsSnapshot ==
  JObj([vehicles |-> JArr(<<>>), permanentClients |-> JArr(<<>>),
        settings |-> OtherSettings, dailyStats |-> JArr(<<>>)])
NullFieldSnapshot ==
  JObj([vehicles |-> JNull, permanentClients |-> JArr(<<>>), settings |-> OtherSettings])

Snapshots ==
  {FullSnapshot, EmptyCollectionsSnapshot, NullFieldSnapshot}

EmptyDisk == [f \in {} |-> JsonStringify(JNull)]
NoObjects == [o \in {} |-> JsonStringify(JNull)]

NoRequest == [op |-> "none"]
NoDownload == [ok |-> FALSE, reason |-> "not_run"]

-----------------------------------------------------------------------------
(* POST /api/backup, lines 285-315 *)

\* lines 292-303 for one field:  if (backupData.f) await writeJsonFile(F, backupData.f)
RestoreFieldIfPresent(st, b, field, fault) ==
  IF field \in DOMAIN b.v
  THEN writeJsonFile(st, FileOf(field), Prop(b, field), fault)
  ELSE st

RestoreField(st, b, field, fault) ==
  IF Truthy(Prop(b, field))
  THEN writeJsonFile(st, FileOf(field), Prop(b, field), fault)
  ELSE st

\* the four conditional writes, in the order of the code
RestoreFields(st, b, fault) ==
  RestoreField(
    RestoreField(
      RestoreField(
        RestoreField(st, b, "vehicles", fault),
        b, "permanentClients", fault),
      b, "settings", fault),
    b, "dailyStats", fault)

SaveLocalSkipsBackupFile(backupData, fault) ==
  RestoreFields(Start(disk), backupData, fault)

\* lines 289-303: the local writes of a save
SaveLocal(backupData, fault) ==
  RestoreFields(writeJsonFile(Start(disk), BACKUP_FILE, backupData, fault),
                backupData, fault)

SaveResponseFailsOnPush(threw, up) ==
  IF threw \/ (~up.ok /\ up.reason # "supabase_not_configured")
  THEN [status |-> 500, body |-> JsonStringify(JObj([error |-> "Failed to save backup"]))]
  ELSE [status |-> 200, body |-> JsonStringify(JObj([success |-> TRUE, supabase |-> up.ok]))]

\* lines 311 and 313
SaveResponse(threw, up) ==
  IF threw
  THEN [status |-> 500, body |-> JsonStringify(JObj([error |-> "Failed to save backup"]))]
  ELSE [status |-> 200, body |-> JsonStringify(JObj([success |-> TRUE, supabase |-> up.ok]))]

\* the handler, for the request bodies of a set
Save(snapshots) ==
  /\ pc = "serving"
  /\ \E backupData \in snapshots, fault \in Faults(Files), net \in Nets :
       LET st == SaveLocal(backupData, fault)
           up == uploadBackupToSupabase(remote, backupData, net)
           rs == SaveResponse(st.threw, up.res)
       IN  /\ disk' = st.disk
           /\ remote' = IF st.threw THEN remote ELSE up.objects
           /\ last' = [op |-> "backupSave", body |-> backupData, status |-> rs.status,
                       res |-> rs.body, threw |-> st.threw, net |-> net]
  /\ UNCHANGED <<dataDir, supabase, pc, down, console, now, requests>>

BackupSave == Save(Snapshots)

-----------------------------------------------------------------------------
(* GET /api/backup, lines 318-330 *)

\* x || {}
OrEmptyObject(x) == IF Truthy(x) THEN x ELSE JObj(EmptyRecord)

LoadLocalFirst(pulled, fault) ==
  LET r == readJsonFile(Start(disk), BACKUP_FILE, JObj(EmptyRecord), fault)
  IN  IF BACKUP_FILE \in DOMAIN disk \/ ~pulled.ok
      THEN [disk |-> r.disk, threw |-> r.threw, value |-> OrEmptyObject(r.value)]
      ELSE [disk |-> disk, threw |-> FALSE, value |-> OrEmptyObject(pulled.data)]

LoadFailsOnDownloadError(pulled, fault) ==
  IF pulled.ok
  THEN [disk |-> disk, threw |-> FALSE, value |-> OrEmptyObject(pulled.data)]
  ELSE IF pulled.reason = "download_failed"
  THEN [disk |-> disk, threw |-> TRUE, value |-> JUndefined]
  ELSE LET r == readJsonFile(Start(disk), BACKUP_FILE, JObj(EmptyRecord), fault)
       IN  [disk |-> r.disk, threw |-> r.threw, value |-> OrEmptyObject(r.value)]

\* lines 321-326: [disk, threw, value]
LoadBackup(pulled, fault) ==
  IF pulled.ok
  THEN [disk |-> disk, threw |-> FALSE, value |-> OrEmptyObject(pulled.data)]
  ELSE LET r == readJsonFile(Start(disk), BACKUP_FILE, JObj(EmptyRecord), fault)
       IN  [disk |-> r.disk, threw |-> r.threw, value |-> OrEmptyObject(r.value)]

\* lines 323, 326 and 328
LoadResponse(r) ==
  IF r.threw
  THEN [status |-> 500, body |-> JsonStringify(JObj([error |-> "Failed to load backup"]))]
  ELSE [status |-> 200, body |-> JsonStringify(r.value)]

\* the request handled just before this one, when it was a save that succeeded
JustSaved == IF last.op = "backupSave" /\ last.status = 200 THEN last ELSE NoRequest

BackupLoad ==
  /\ pc = "serving"
  /\ \E fault \in Faults({BACKUP_FILE}), net \in Nets :
       LET pulled == downloadBackupFromSupabase(remote, net)
           r == LoadBackup(pulled, fault)
       IN  /\ disk' = r.disk
           /\ last' = [op |-> "backupLoad", status |-> LoadResponse(r).status,
                       res |-> LoadResponse(r).body, threw |-> r.threw,
                       pull |-> pulled, after |-> JustSaved]
  /\ UNCHANGED <<dataDir, supabase, remote, pc, down, console, now, requests>>

-----------------------------------------------------------------------------
(* startServer, lines 341-379 *)

\* lines 31-37 and 343: mkdir may fail, and then line 377 ends the process
StartEnsureDataDir ==
  /\ pc = "ensureDataDir"
  /\ \/ /\ dataDir
        /\ pc' = "download"
        /\ UNCHANGED dataDir
     \/ /\ ~dataDir
        /\ \E mkdir \in {"ok", "error"} :
             /\ dataDir' = (mkdir = "ok")
             /\ pc' = IF mkdir = "ok" THEN "download" ELSE "exited"
  /\ UNCHANGED <<disk, supabase, remote, down, console, now, last, requests>>

\* line 346
StartDownload ==
  /\ pc = "download"
  /\ \E net \in Nets : down' = downloadBackupFromSupabase(remote, net)
  /\ pc' = "restore"
  /\ UNCHANGED <<dataDir, disk, supabase, remote, console, now, last, requests>>

StartRestoreSkipsBackupFile(b, fault) == RestoreFields(Start(disk), b, fault)

\* lines 349-353: the writes of the startup restore
StartRestoreWrites(b, fault) ==
  writeJsonFile(RestoreFields(Start(disk), b, fault), BACKUP_FILE, b, fault)

RestoreOutcomeExits(threw) == IF threw THEN "exited" ELSE "listen"

\* lines 358-360: an exception of the restore is caught and logged
RestoreOutcome(threw) == "listen"

\* the lines logged at 354, 356 and 359
Restored == "Restored data from Supabase backup at startup"
UsingLocalFiles == "No Supabase backup found or not configured; using local files"
RestoreSkipped == "Startup restore skipped due to error"

\* lines 347-360
StartRestore ==
  /\ pc = "restore"
  /\ IF down.ok /\ Truthy(down.data)
     THEN \E fault \in Faults(Files) :
            LET st == StartRestoreWrites(down.data, fault)
            IN  /\ disk' = st.disk
                /\ console' = IF st.threw THEN RestoreSkipped ELSE Restored
                /\ pc' = RestoreOutcome(st.threw)
     ELSE /\ console' = UsingLocalFiles
          /\ pc' = RestoreOutcome(FALSE)
          /\ UNCHANGED disk
  /\ UNCHANGED <<dataDir, supabase, remote, down, now, last, requests>>

\* lines 361-374
StartListen ==
  /\ pc = "listen"
  /\ pc' = "serving"
  /\ UNCHANGED <<dataDir, disk, supabase, remote, down, console, now, last, requests>>

-----------------------------------------------------------------------------
(* What the disk and the bucket hold when the process starts: nothing, or   *)
(* what an earlier run of the service left there after a save.              *)
SavedDisk(backupData) ==
  LET files == [f \in {BACKUP_FILE} |-> JsonStringify(backupData)]
      live(fs, field) == IF Truthy(Prop(backupData, field))
                         THEN Put(fs, FileOf(field), JsonStringify(Prop(backupData, field)))
                         ELSE fs
  IN  live(live(live(live(files, "vehicles"), "permanentClients"), "settings"), "dailyStats")

InitialDisks == {EmptyDisk, SavedDisk(FullSnapshot)}
InitialObjects ==
  {NoObjects} \cup {[o \in {BACKUP_OBJECT} |-> JsonStringify(s)] : s \in Snapshots}

Init ==
  /\ dataDir \in BOOLEAN
  /\ disk \in IF dataDir THEN InitialDisks ELSE {EmptyDisk}
  /\ supabase \in BOOLEAN
  /\ remote \in IF supabase THEN InitialObjects ELSE {NoObjects}
  /\ pc = "ensureDataDir"
  /\ down = NoDownload
  /\ console = ""
  /\ now = 1
  /\ last = NoRequest
  /\ requests = <<>>

Next ==
  \/ StartEnsureDataDir
  \/ StartDownload
  \/ StartRestore
  \/ StartListen
  \/ BackupSave
  \/ BackupLoad

Spec == Init /\ [][Next]_vars

-----------------------------------------------------------------------------
(* The service once it listens with no Supabase client: the state startServer *)
(* reaches from Init when SUPABASE_URL is not set.                            *)
InitServing ==
  /\ dataDir = TRUE
  /\ disk \in InitialDisks
  /\ supabase = FALSE
  /\ remote = NoObjects
  /\ pc = "serving"
  /\ down = [ok |-> FALSE, reason |-> "supabase_not_configured"]
  /\ console = UsingLocalFiles
  /\ now = 1
  /\ last = NoRequest
  /\ requests = <<>>

\* the clock when a request is handled: not before the previous one
Times == now .. MaxTime

-----------------------------------------------------------------------------
(* The GET handlers, lines 129-136, 177-184, 233-240, 252-259 *)

GetResponse(r, message) ==
  IF r.threw
  THEN [status |-> 500, body |-> JsonStringify(JObj([error |-> message]))]
  ELSE [status |-> 200, body |-> JsonStringify(r.value)]

Get(op, filePath, defaultValue, message) ==
  /\ pc = "serving"
  /\ \E fault \in Faults({filePath}), t \in Times :
       LET r == readJsonFile(Start(disk), filePath, defaultValue, fault)
           rs == GetResponse(r, message)
       IN  /\ disk' = r.disk
           /\ now' = t
           /\ last' = [op |-> op, status |-> rs.status, res |-> rs.body, threw |-> r.threw]
  /\ UNCHANGED <<dataDir, supabase, remote, pc, down, console, requests>>

\* lines 129-136
GetVehicles == Get("getVehicles", VEHICLES_FILE, JArr(<<>>), "Failed to fetch vehicles")
\* lines 177-184
GetPermanentClients ==
  Get("getPermanentClients", PERMANENT_CLIENTS_FILE, JArr(<<>>),
      "Failed to fetch permanent clients")
\* lines 233-240
GetSettings == Get("getSettings", SETTINGS_FILE, defaultSettings, "Failed to fetch settings")
\* lines 252-259
GetDailyStats == Get("getDailyStats", DAILY_STATS_FILE, JArr(<<>>), "Failed to fetch daily stats")

\* the file and the default each GET reads with
GetFile(op) ==
  CASE op = "getVehicles" -> VEHICLES_FILE
    [] op = "getPermanentClients" -> PERMANENT_CLIENTS_FILE
    [] op = "getSettings" -> SETTINGS_FILE
    [] op = "getDailyStats" -> DAILY_STATS_FILE
GetDefault(op) == IF op = "getSettings" THEN defaultSettings ELSE JArr(<<>>)
GetOps == {"getVehicles", "getPermanentClients", "getSettings", "getDailyStats"}

\* request bodies of PUT /api/settings: whatever the caller sends is stored; a
\* document with credentials, another, and one without a credentials object
NoCredentialsSettings == JObj([siteName |-> "Lot 7"])
SettingsBodies == {defaultSettings, OtherSettings, NoCredentialsSettings}

\* PUT /api/settings, lines 242-249
PutSettings ==
  /\ pc = "serving"
  /\ \E body \in SettingsBodies, fault \in Faults({SETTINGS_FILE}),
        t \in Times :
       LET st == writeJsonFile(Start(disk), SETTINGS_FILE, body, fault)
       IN  /\ disk' = st.disk
           /\ now' = t
           /\ last' = IF st.threw
                      THEN [op |-> "putSettings", body |-> body, status |-> 500,
                            res |-> JsonStringify(JObj([error |-> "Failed to update settings"])),
                            threw |-> TRUE]
                      ELSE [op |-> "putSettings", body |-> body, status |-> 200,
                            res |-> JsonStringify(body), threw |-> FALSE]
  /\ UNCHANGED <<dataDir, supabase, remote, pc, down, console, requests>>

NextStore ==
  \/ GetVehicles
  \/ GetPermanentClients
  \/ GetSettings
  \/ GetDailyStats
  \/ PutSettings

SpecStore == InitServing /\ [][NextStore]_vars

-----------------------------------------------------------------------------
(* Login, lines 113-126 *)

\* request bodies of POST /api/auth/login: each pair of these names and words,
\* and a body without the two fields
LoginBodies ==
  [username : {"admin", "owner"}, password : {"admin123", "s3cret"}] \cup {EmptyRecord}

LoginSucceeded == JsonStringify(JObj([success |-> TRUE, message |-> "Login successful"]))
InvalidCredentials ==
  JsonStringify(JObj([success |-> FALSE, message |-> "Invalid credentials"]))
ServerError == JsonStringify(JObj([success |-> FALSE, message |-> "Server error"]))

\* lines 115-125: [disk, threw, status, body].  settings.credentials.username
\* throws a TypeError when the document has no credentials object.
LoginOutcome(body, fault) ==
  LET r == readJsonFile(Start(disk), SETTINGS_FILE, defaultSettings, fault)
  IN  IF r.threw
      THEN [disk |-> r.disk, threw |-> TRUE, status |-> 500, body |-> ServerError]
      ELSE IF "credentials" \notin DOMAIN r.value.v
      THEN [disk |-> r.disk, threw |-> TRUE, status |-> 500, body |-> ServerError]
      ELSE LET credentials == r.value.v.credentials
           IN  IF /\ Field(body, "username") = Field(credentials, "username")
                  /\ Field(body, "password") = Field(credentials, "password")
               THEN [disk |-> r.disk, threw |-> FALSE, status |-> 200,
                     body |-> LoginSucceeded]
               ELSE [disk |-> r.disk, threw |-> FALSE, status |-> 401,
                     body |-> InvalidCredentials]

\* POST /api/auth/login, lines 113-126
Login ==
  /\ pc = "serving"
  /\ \E body \in LoginBodies, fault \in Faults({SETTINGS_FILE}) :
       LET out == LoginOutcome(body, fault)
       IN  /\ disk' = out.disk
           /\ last' = [op |-> "login", body |-> body, status |-> out.status,
                       res |-> out.body, threw |-> out.threw]
  /\ UNCHANGED <<dataDir, supabase, remote, pc, down, console, now, requests>>

NextAuth ==
  \/ Login
  \/ PutSettings

SpecAuth == InitServing /\ [][NextAuth]_vars

-----------------------------------------------------------------------------
(* Vehicles, lines 138-174 *)

\* the vehicles array is not grown past MaxVehicles records
MaxVehicles == 2

\* request bodies of POST /api/vehicles
VehicleBodies == {[plate |-> "LEA-1"]}

\* req.params.id of PUT /api/vehicles/:id/exit: the ids the clock can have
\* given, and one that is no record's
ExitIds == {ToString(t) : t \in 1 .. MaxTime} \cup {"404"}

\* request bodies of PUT /api/vehicles/:id/exit: with a fee, and without
ExitBodies == {[fee |-> "50"], [fee |-> "80"], EmptyRecord}

FindLastIndexById(arr, id) ==
  IF \E i \in DOMAIN arr : Field(arr[i], "id") = id
  THEN (CHOOSE i \in DOMAIN arr :
          /\ Field(arr[i], "id") = id
          /\ \A j \in DOMAIN arr : j > i => Field(arr[j], "id") # id) - 1
  ELSE -1

\* arr.findIndex(v => v.id === id): the first index (from 0), or -1
FindIndexById(arr, id) ==
  IF \E i \in DOMAIN arr : Field(arr[i], "id") = id
  THEN (CHOOSE i \in DOMAIN arr :
          /\ Field(arr[i], "id") = id
          /\ \A j \in DOMAIN arr : j < i => Field(arr[j], "id") # id) - 1
  ELSE -1

\* lines 141-145
NewVehicle(body, t) == Spread(body, [id |-> ToString(t), entryTime |-> ToISOString(t)])

\* POST /api/vehicles, lines 138-152
PostVehicle ==
  /\ pc = "serving"
  /\ \E body \in VehicleBodies, fault \in Faults({VEHICLES_FILE}), t \in Times :
       LET r == readJsonFile(Start(disk), VEHICLES_FILE, JArr(<<>>), fault)
           newVehicle == NewVehicle(body, t)
           vehicles == JArr(Append(r.value.v, newVehicle))
           st == writeJsonFile(r, VEHICLES_FILE, vehicles, fault)
       IN  /\ ~r.threw => Len(r.value.v) < MaxVehicles
           /\ disk' = st.disk
           /\ now' = t
           /\ last' = IF st.threw
                      THEN [op |-> "postVehicle", body |-> body, status |-> 500,
                            res |-> JsonStringify(JObj([error |-> "Failed to add vehicle"])),
                            threw |-> TRUE]
                      ELSE [op |-> "postVehicle", body |-> body, status |-> 200,
                            res |-> JsonStringify(JRec(newVehicle)), threw |-> FALSE]
  /\ UNCHANGED <<dataDir, supabase, remote, pc, down, console, requests>>

\* lines 163-167
ExitedVehicle(vehicle, body, t) ==
  Spread(vehicle, [exitTime |-> ToISOString(t), fee |-> Field(body, "fee")])

ExitIndexLast(arr, id) == FindLastIndexById(arr, id)

\* line 157
ExitIndex(arr, id) == FindIndexById(arr, id)

ExitOutcomeNoNotFoundCheck(id, body, fault, t) ==
  LET r == readJsonFile(Start(disk), VEHICLES_FILE, JArr(<<>>), fault)
  IN  IF r.threw
      THEN [disk |-> r.disk, threw |-> TRUE, status |-> 500,
            body |-> JsonStringify(JObj([error |-> "Failed to update vehicle"]))]
      ELSE LET vehicleIndex == ExitIndex(r.value.v, id)
               updated == ExitedVehicle(IF vehicleIndex = -1 THEN EmptyRecord
                                        ELSE r.value.v[vehicleIndex + 1], body, t)
               vehicles == IF vehicleIndex = -1 THEN r.value
                           ELSE JArr([r.value.v EXCEPT ![vehicleIndex + 1] = updated])
               st == writeJsonFile(r, VEHICLES_FILE, vehicles, fault)
           IN  IF st.threw
               THEN [disk |-> st.disk, threw |-> TRUE, status |-> 500,
                     body |-> JsonStringify(JObj([error |-> "Failed to update vehicle"]))]
               ELSE [disk |-> st.disk, threw |-> FALSE, status |-> 200,
                     body |-> JsonStringify(JRec(updated))]

\* lines 155-173: [disk, threw, status, body]
ExitOutcome(id, body, fault, t) ==
  LET r == readJsonFile(Start(disk), VEHICLES_FILE, JArr(<<>>), fault)
  IN  IF r.threw
      THEN [disk |-> r.disk, threw |-> TRUE, status |-> 500,
            body |-> JsonStringify(JObj([error |-> "Failed to update vehicle"]))]
      ELSE LET vehicleIndex == ExitIndex(r.value.v, id)
           IN  IF vehicleIndex = -1
               THEN [disk |-> r.disk, threw |-> FALSE, status |-> 404,
                     body |-> JsonStringify(JObj([error |-> "Vehicle not found"]))]
               ELSE LET updated == ExitedVehicle(r.value.v[vehicleIndex + 1], body, t)
                        vehicles ==
                          JArr([r.value.v EXCEPT ![vehicleIndex + 1] = updated])
                        st == writeJsonFile(r, VEHICLES_FILE, vehicles, fault)
                    IN  IF st.threw
                        THEN [disk |-> st.disk, threw |-> TRUE, status |-> 500,
                              body |-> JsonStringify(
                                         JObj([error |-> "Failed to update vehicle"]))]
                        ELSE [disk |-> st.disk, threw |-> FALSE, status |-> 200,
                              body |-> JsonStringify(JRec(updated))]

\* PUT /api/vehicles/:id/exit, lines 154-174
PutVehicleExit ==
  /\ pc = "serving"
  /\ \E id \in ExitIds, body \in ExitBodies, fault \in Faults({VEHICLES_FILE}),
        t \in Times :
       LET out == ExitOutcome(id, body, fault, t)
       IN  /\ disk' = out.disk
           /\ now' = t
           /\ last' = [op |-> "putVehicleExit", id |-> id, body |-> body,
                       status |-> out.status, res |-> out.body, threw |-> out.threw]
  /\ UNCHANGED <<dataDir, supabase, remote, pc, down, console, requests>>

NextVehicles ==
  \/ GetVehicles
  \/ PostVehicle
  \/ PutVehicleExit

SpecVehicles == InitServing /\ [][NextVehicles]_vars

-----------------------------------------------------------------------------
(* Permanent clients, lines 186-230 *)

\* the permanent-clients array is not grown past MaxClients records
MaxClients == 2

\* request bodies of POST /api/permanent-clients
ClientBodies == {[name |-> "Ali"]}

\* req.params.id of the PUT and the DELETE: the ids the clock can have given,
\* and one that is no record's
ClientIds == {ToString(t) : t \in 1 .. MaxTime} \cup {"404"}

\* request bodies of PUT /api/permanent-clients/:id: one field of the record,
\* and a field the record does not have yet beside the identifier itself
UpdateBodies == {[paymentStatus |-> "paid"], [phone |-> "0300", id |-> ToString(1)]}

\* lines 189-195
NewClient(body, t) ==
  Spread(body, [id |-> ToString(t), isPermanent |-> "true", paymentStatus |-> "unpaid",
                entryTime |-> ToISOString(t)])

\* POST /api/permanent-clients, lines 186-202
PostPermanentClient ==
  /\ pc = "serving"
  /\ \E body \in ClientBodies, fault \in Faults({PERMANENT_CLIENTS_FILE}), t \in Times :
       LET r == readJsonFile(Start(disk), PERMANENT_CLIENTS_FILE, JArr(<<>>), fault)
           newClient == NewClient(body, t)
           clients == JArr(Append(r.value.v, newClient))
           st == writeJsonFile(r, PERMANENT_CLIENTS_FILE, clients, fault)
       IN  /\ ~r.threw => Len(r.value.v) < MaxClients
           /\ disk' = st.disk
           /\ now' = t
           /\ last' = IF st.threw
                      THEN [op |-> "postPermanentClient", body |-> body, status |-> 500,
                            res |-> JsonStringify(
                                      JObj([error |-> "Failed to add permanent client"])),
                            threw |-> TRUE]
                      ELSE [op |-> "postPermanentClient", body |-> body, status |-> 200,
                            res |-> JsonStringify(JRec(newClient)), threw |-> FALSE]
  /\ UNCHANGED <<dataDir, supabase, remote, pc, down, console, requests>>

MergedClientReplaced(client, body) == body

\* line 213: { ...clients[clientIndex], ...req.body }
MergedClient(client, body) == Spread(client, body)

\* lines 205-218: [disk, threw, status, body]
UpdateOutcome(id, body, fault) ==
  LET r == readJsonFile(Start(disk), PERMANENT_CLIENTS_FILE, JArr(<<>>), fault)
      failed == JsonStringify(JObj([error |-> "Failed to update permanent client"]))
  IN  IF r.threw
      THEN [disk |-> r.disk, threw |-> TRUE, status |-> 500, body |-> failed]
      ELSE LET clientIndex == FindIndexById(r.value.v, id)
           IN  IF clientIndex = -1
               THEN [disk |-> r.disk, threw |-> FALSE, status |-> 404,
                     body |-> JsonStringify(JObj([error |-> "Client not found"]))]
               ELSE LET merged == MergedClient(r.value.v[clientIndex + 1], body)
                        clients == JArr([r.value.v EXCEPT ![clientIndex + 1] = merged])
                        st == writeJsonFile(r, PERMANENT_CLIENTS_FILE, clients, fault)
                    IN  IF st.threw
                        THEN [disk |-> st.disk, threw |-> TRUE, status |-> 500,
                              body |-> failed]
                        ELSE [disk |-> st.disk, threw |-> FALSE, status |-> 200,
                              body |-> JsonStringify(JRec(merged))]

\* PUT /api/permanent-clients/:id, lines 204-219
PutPermanentClient ==
  /\ pc = "serving"
  /\ \E id \in ClientIds, body \in UpdateBodies,
        fault \in Faults({PERMANENT_CLIENTS_FILE}) :
       LET out == UpdateOutcome(id, body, fault)
       IN  /\ disk' = out.disk
           /\ last' = [op |-> "putPermanentClient", id |-> id, body |-> body,
                       status |-> out.status, res |-> out.body, threw |-> out.threw]
  /\ UNCHANGED <<dataDir, supabase, remote, pc, down, console, now, requests>>

RECURSIVE FilterOutFirstById(_, _)
FilterOutFirstById(arr, id) ==
  IF arr = <<>> THEN <<>>
  ELSE IF Field(Head(arr), "id") = id THEN Tail(arr)
  ELSE <<Head(arr)>> \o FilterOutFirstById(Tail(arr), id)

\* line 224: clients.filter(c => c.id !== id)
RECURSIVE FilterOutById(_, _)
FilterOutById(arr, id) ==
  IF arr = <<>> THEN <<>>
  ELSE IF Field(Head(arr), "id") = id THEN FilterOutById(Tail(arr), id)
  ELSE <<Head(arr)>> \o FilterOutById(Tail(arr), id)

\* DELETE /api/permanent-clients/:id, lines 221-230
DeletePermanentClient ==
  /\ pc = "serving"
  /\ \E id \in ClientIds, fault \in Faults({PERMANENT_CLIENTS_FILE}) :
       LET r == readJsonFile(Start(disk), PERMANENT_CLIENTS_FILE, JArr(<<>>), fault)
           filteredClients == JArr(FilterOutById(r.value.v, id))
           st == writeJsonFile(r, PERMANENT_CLIENTS_FILE, filteredClients, fault)
       IN  /\ disk' = st.disk
           /\ last' = IF st.threw
                      THEN [op |-> "deletePermanentClient", id |-> id, status |-> 500,
                            res |-> JsonStringify(
                                      JObj([error |-> "Failed to remove permanent client"])),
                            threw |-> TRUE]
                      ELSE [op |-> "deletePermanentClient", id |-> id, status |-> 200,
                            res |-> JsonStringify(JObj([success |-> TRUE])),
                            threw |-> FALSE]
  /\ UNCHANGED <<dataDir, supabase, remote, pc, down, console, now, requests>>

NextClients ==
  \/ GetPermanentClients
  \/ PostPermanentClient
  \/ PutPermanentClient
  \/ DeletePermanentClient

SpecClients == InitServing /\ [][NextClients]_vars

-----------------------------------------------------------------------------
(* Daily stats, lines 252-277 *)

\* request bodies of POST /api/daily-stats: two for one date, one for another
StatsBodies ==
  {[date |-> "2024-01-01", revenue |-> "50"], [date |-> "2024-01-01", revenue |-> "70"],
   [date |-> "2024-01-02", revenue |-> "50"]}

\* line 264: stats.findIndex(s => s.date === req.body.date), from 0, or -1
FindIndexByDate(arr, date) ==
  IF \E i \in DOMAIN arr : Field(arr[i], "date") = date
  THEN (CHOOSE i \in DOMAIN arr :
          /\ Field(arr[i], "date") = date
          /\ \A j \in DOMAIN arr : j < i => Field(arr[j], "date") # date) - 1
  ELSE -1

\* lines 266-270: replace at the index found, else push
Upserted(arr, body) ==
  LET existingIndex == FindIndexByDate(arr, Field(body, "date"))
  IN  IF existingIndex # -1 THEN [arr EXCEPT ![existingIndex + 1] = body]
      ELSE Append(arr, body)

\* POST /api/daily-stats, lines 261-277
PostDailyStats ==
  /\ pc = "serving"
  /\ \E body \in StatsBodies, fault \in Faults({DAILY_STATS_FILE}) :
       LET r == readJsonFile(Start(disk), DAILY_STATS_FILE, JArr(<<>>), fault)
           stats == JArr(Upserted(r.value.v, body))
           st == writeJsonFile(r, DAILY_STATS_FILE, stats, fault)
       IN  /\ disk' = st.disk
           /\ last' = IF st.threw
                      THEN [op |-> "postDailyStats", body |-> body, status |-> 500,
                            res |-> JsonStringify(
                                      JObj([error |-> "Failed to update daily stats"])),
                            threw |-> TRUE]
                      ELSE [op |-> "postDailyStats", body |-> body, status |-> 200,
                            res |-> JsonStringify(JRec(body)), threw |-> FALSE]
  /\ UNCHANGED <<dataDir, supabase, remote, pc, down, console, now, requests>>

\* a snapshot whose dailyStats array holds two records of one date
DuplicateDatesSnapshot ==
  JObj([dailyStats |-> JArr(<<[date |-> "2024-01-01", revenue |-> "50"],
                              [date |-> "2024-01-01", revenue |-> "70"]>>)])

\* POST /api/backup with the snapshots a client of the daily stats sends
BackupSaveStats == Save({FullSnapshot, DuplicateDatesSnapshot})

NextStats ==
  \/ GetDailyStats
  \/ PostDailyStats
  \/ BackupSaveStats

SpecStats == InitServing /\ [][NextStats]_vars

-----------------------------------------------------------------------------
(* Concurrent requests on vehicles.json, lines 40-55 and 129-152: a handler *)
(* gives up control at each await, and the awaited fs.readFile and          *)
(* fs.writeFile of the requests in flight complete in any order.            *)

\* no more than MaxRequests requests are handled concurrently
MaxRequests == 2

\* the message of each handler's catch, lines 134 and 150
FailureOf(op) ==
  IF op = "getVehicles" THEN "Failed to fetch vehicles" ELSE "Failed to add vehicle"

\* a request arrives; its handler calls readJsonFile and awaits fs.readFile
Arrive ==
  /\ pc = "serving"
  /\ Len(requests) < MaxRequests
  /\ \/ requests' = Append(requests, [op |-> "getVehicles", pc |-> "readFile"])
     \/ \E body \in VehicleBodies :
          requests' = Append(requests,
                             [op |-> "postVehicle", body |-> body, pc |-> "readFile"])
  /\ UNCHANGED <<dataDir, disk, supabase, remote, pc, down, console, now, last>>

\* the handler of request i goes on with what readJsonFile returned: the GET
\* answers it (line 132); the POST builds its record and the array it will
\* write and awaits fs.writeFile (lines 141-147)
Resume(i, value) ==
  IF requests[i].op = "getVehicles"
  THEN /\ requests' = [requests EXCEPT ![i] =
                         [op |-> "getVehicles", pc |-> "done", status |-> 200,
                          res |-> JsonStringify(value)]]
       /\ UNCHANGED now
  ELSE /\ Len(value.v) < MaxVehicles
       /\ \E t \in Times :
            /\ now' = t
            /\ requests' = [requests EXCEPT ![i] =
                              [op |-> "postVehicle", body |-> requests[i].body,
                               pc |-> "writeFile", seen |-> value.v,
                               newVehicle |-> NewVehicle(requests[i].body, t)]]

\* request i answers 500 from its catch, lines 134 and 150
Fail(i) ==
  LET res == JsonStringify(JObj([error |-> FailureOf(requests[i].op)]))
  IN  requests' = [requests EXCEPT ![i] =
                     IF requests[i].op = "getVehicles"
                     THEN [op |-> "getVehicles", pc |-> "done", status |-> 500, res |-> res]
                     ELSE [op |-> "postVehicle", body |-> requests[i].body, pc |-> "done",
                           status |-> 500, res |-> res]]

\* lines 42-45: fs.readFile of request i completes, with the text or ENOENT
ReadFile(i) ==
  /\ requests[i].pc = "readFile"
  /\ IF VEHICLES_FILE \in DOMAIN disk
     THEN Resume(i, JsonParse(disk[VEHICLES_FILE]))
     ELSE /\ requests' = [requests EXCEPT ![i].pc = "materialize"]
          /\ UNCHANGED now
  /\ UNCHANGED <<dataDir, disk, supabase, remote, pc, down, console, last>>

\* lines 46-47: the write of the default started after ENOENT completes
Materialize(i) ==
  /\ requests[i].pc = "materialize"
  /\ \E fault \in Faults({VEHICLES_FILE}) :
       LET st == writeJsonFile(Start(disk), VEHICLES_FILE, JArr(<<>>), fault)
       IN  /\ disk' = st.disk
           /\ IF st.threw THEN Fail(i) /\ UNCHANGED now ELSE Resume(i, JArr(<<>>))
  /\ UNCHANGED <<dataDir, supabase, remote, pc, down, console, last>>

WrittenOnCurrent(files, req) ==
  JArr(Append(IF VEHICLES_FILE \in DOMAIN files
              THEN JsonParse(files[VEHICLES_FILE]).v ELSE <<>>, req.newVehicle))

\* lines 146-147: the array read earlier, with the new record pushed
Written(files, req) == JArr(Append(req.seen, req.newVehicle))

\* lines 147-148: the write of the POST completes and the handler answers
WriteFile(i) ==
  /\ requests[i].pc = "writeFile"
  /\ \E fault \in Faults({VEHICLES_FILE}) :
       LET st == writeJsonFile(Start(disk), VEHICLES_FILE, Written(disk, requests[i]), fault)
       IN  /\ disk' = st.disk
           /\ IF st.threw THEN Fail(i)
              ELSE requests' = [requests EXCEPT ![i] =
                                  [op |-> "postVehicle", body |-> requests[i].body,
                                   pc |-> "done", status |-> 200,
                                   res |-> JsonStringify(JRec(requests[i].newVehicle)),
                                   seen |-> requests[i].seen,
                                   newVehicle |-> requests[i].newVehicle]]
  /\ UNCHANGED <<dataDir, supabase, remote, pc, down, console, now, last>>

NextRace ==
  \/ Arrive
  \/ \E i \in DOMAIN requests : ReadFile(i)
  \/ \E i \in DOMAIN requests : Materialize(i)
  \/ \E i \in DOMAIN requests : WriteFile(i)

SpecRace == InitServing /\ [][NextRace]_vars

\* the event loop runs startServer to its end: each of its awaits settles
SpecLive ==
  Spec /\ WF_vars(StartEnsureDataDir \/ StartDownload \/ StartRestore \/ StartListen)

-----------------------------------------------------------------------------
(* Properties *)

AllFieldsPopulated(s) == \A f \in SnapshotFields : Truthy(Prop(s, f))

\* file f is the same in the two sets of files: missing in both, or the same text
SameFile(before, after, f) ==
  IF f \in DOMAIN before THEN f \in DOMAIN after /\ after[f] = before[f]
  ELSE f \notin DOMAIN after

\* file f exists and its text denotes value
Holds(files, f, value) == f \in DOMAIN files /\ JsonParse(files[f]) = value

\* C1: without a remote mirror, a load that directly follows a successful save
\* of a snapshot with all four fields populated answers 200 with that snapshot.
C1_SaveLoadRoundTrip ==
  (/\ last.op = "backupLoad"
   /\ last.after.op = "backupSave"
   /\ ~supabase
   /\ AllFieldsPopulated(last.after.body))
  => (last.status = 200 /\ JsonParse(last.res) = last.after.body)

C1_Witness ==
  /\ last.op = "backupLoad"
  /\ last.after.op = "backupSave"
  /\ ~supabase
  /\ last.after.body = EmptyCollectionsSnapshot
  /\ JsonParse(last.res) = EmptyCollectionsSnapshot

\* C2: when the mirror is configured and the pull succeeds, the load answers
\* 200 with the snapshot stored remotely, whatever the local backup file holds
\* (a different snapshot, or nothing), and so not the local one when they differ.
C2_RemotePrecedence ==
  (last.op = "backupLoad" /\ last.pull.ok)
  => /\ supabase
     /\ last.status = 200
     /\ BACKUP_OBJECT \in DOMAIN remote
     /\ JsonParse(last.res) = JsonParse(remote[BACKUP_OBJECT])
     /\ (BACKUP_FILE \in DOMAIN disk /\ disk[BACKUP_FILE] # remote[BACKUP_OBJECT]
           => last.res # disk[BACKUP_FILE])

C2_Witness ==
  /\ last.op = "backupLoad"
  /\ last.pull.ok
  /\ BACKUP_FILE \in DOMAIN disk
  /\ disk[BACKUP_FILE] # remote[BACKUP_OBJECT]
  /\ last.res = remote[BACKUP_OBJECT]

\* C3: when the pull does not succeed (not configured, not found, download
\* failed), the load answers 200 with the local backup document, or with {}
\* when there is none; it answers an error only when no local backup document
\* existed and the write that materializes {} was rejected, never because of
\* the pull.
C3_FallbackToLocal ==
  [][(last'.op = "backupLoad" /\ ~last'.pull.ok)
       => /\ BACKUP_FILE \in DOMAIN disk
               => /\ last'.status = 200
                  /\ last'.res = disk[BACKUP_FILE]
          /\ BACKUP_FILE \notin DOMAIN disk /\ ~last'.threw
               => /\ last'.status = 200
                  /\ JsonParse(last'.res) = JObj(EmptyRecord)
          /\ last'.status # 200
               => last'.threw /\ BACKUP_FILE \notin DOMAIN disk]_vars

C3_Witness ==
  /\ last.op = "backupLoad"
  /\ last.pull.reason = "download_failed"
  /\ last.status = 200
  /\ JsonParse(last.res) = FullSnapshot

\* C4: when no local write of a save is rejected, the save answers 200 with
\* success:true whatever the push did, and its supabase flag is true exactly
\* when the push stored the snapshot remotely.
C4_SaveSucceedsWhateverThePush ==
  (last.op = "backupSave" /\ ~last.threw)
  => /\ last.status = 200
     /\ JsonParse(last.res).v.success = TRUE
     /\ JsonParse(last.res).v.supabase = (supabase /\ last.net = "ok")
     /\ JsonParse(last.res).v.supabase => Holds(remote, BACKUP_OBJECT, last.body)

C4_Witness ==
  /\ last.op = "backupSave"
  /\ ~last.threw
  /\ supabase
  /\ last.net = "error"
  /\ last.status = 200
  /\ JsonParse(last.res).v.supabase = FALSE

\* C5 as stated: after a successful save of S the backup document is S, each
\* live document whose field is present in S holds that field's value, and each
\* live document whose field is absent from S is unchanged.
C5_PresentFieldsOverwritten ==
  [][(last'.op = "backupSave" /\ last'.status = 200)
       => /\ Holds(disk', BACKUP_FILE, last'.body)
          /\ \A f \in SnapshotFields :
               IF f \in DOMAIN last'.body.v
               THEN Holds(disk', FileOf(f), last'.body.v[f])
               ELSE SameFile(disk, disk', FileOf(f))]_vars

\* C5, amended: after a successful save of S the backup document is S, each
\* live document whose field is present in S with a truthy value (not null)
\* holds that value, and each live document whose field is absent from S or
\* null in S is unchanged.
C5_TruthyFieldsOverwritten ==
  [][(last'.op = "backupSave" /\ last'.status = 200)
       => /\ Holds(disk', BACKUP_FILE, last'.body)
          /\ \A f \in SnapshotFields :
               IF f \in DOMAIN last'.body.v /\ last'.body.v[f] # JNull
               THEN Holds(disk', FileOf(f), last'.body.v[f])
               ELSE SameFile(disk, disk', FileOf(f))]_vars

C5_Witness ==
  /\ last.op = "backupSave"
  /\ last.status = 200
  /\ last.body = NullFieldSnapshot
  /\ Holds(disk, VEHICLES_FILE, SampleVehicles)
  /\ Holds(disk, PERMANENT_CLIENTS_FILE, JArr(<<>>))
  /\ Holds(disk, DAILY_STATS_FILE, SampleStats)

C7_StartupAlwaysServes == (pc = "download") ~> (pc = "serving")

C7_Witness ==
  /\ pc = "serving"
  /\ console = RestoreSkipped
  /\ down.ok

\* C8: a read of a document that does not exist answers the default and
\* leaves the document on disk holding that default (no other file touched),
\* so that the next read of it, with no write in between, answers the same; a
\* read of a document that exists answers its content and changes nothing.
\* (The read fails only when the write of the default is rejected.)
C8_ReadMaterializesDefault ==
  [][last'.op \in GetOps
       => LET f == GetFile(last'.op)
              d == GetDefault(last'.op)
          IN  /\ f \notin DOMAIN disk /\ ~last'.threw
                   => /\ last'.status = 200
                      /\ JsonParse(last'.res) = d
                      /\ Holds(disk', f, d)
                      /\ \A g \in Files \ {f} : SameFile(disk, disk', g)
              /\ f \in DOMAIN disk
                   => /\ last'.status = 200
                      /\ last'.res = disk[f]
                      /\ disk' = disk
              /\ last'.threw => f \notin DOMAIN disk /\ disk' = disk
              /\ last.op = last'.op /\ last.status = 200 /\ last'.status = 200
                   => last'.res = last.res]_vars

C8_Witness ==
  /\ last.op = "getDailyStats"
  /\ last.status = 200
  /\ JsonParse(last.res) = JArr(<<>>)
  /\ Holds(disk, DAILY_STATS_FILE, JArr(<<>>))
  /\ SETTINGS_FILE \notin DOMAIN disk

\* the records a read of the vehicles collection answers
Vehicles(files) ==
  IF VEHICLES_FILE \in DOMAIN files THEN JsonParse(files[VEHICLES_FILE]).v ELSE <<>>

Matches(files, id) == {i \in DOMAIN Vehicles(files) : Field(Vehicles(files)[i], "id") = id}

\* C9: an exit with an identifier that no record of the vehicles collection
\* has answers 404 and leaves the records of the collection and every other
\* document as they were.  (When vehicles.json does not exist yet the read
\* materializes the empty collection; if that write is rejected the answer is
\* the 500 of a local fault, and still nothing changes.)
C9_ExitUnknownId ==
  [][(last'.op = "putVehicleExit" /\ Matches(disk, last'.id) = {})
       => /\ Vehicles(disk') = Vehicles(disk)
          /\ \A g \in Files \ {VEHICLES_FILE} : SameFile(disk, disk', g)
          /\ VEHICLES_FILE \in DOMAIN disk => disk' = disk
          /\ ~last'.threw
               => /\ last'.status = 404
                  /\ JsonParse(last'.res) = JObj([error |-> "Vehicle not found"])
          /\ last'.status # 404
               => last'.threw /\ VEHICLES_FILE \notin DOMAIN disk /\ disk' = disk]_vars

C9_Witness ==
  /\ last.op = "putVehicleExit"
  /\ last.status = 404
  /\ Matches(disk, last.id) = {}
  /\ Len(Vehicles(disk)) = 2

\* C10: an exit with an identifier that records of the collection have answers
\* 200 with the updated record; only the first record with that identifier
\* can differ afterwards: it keeps every other field, its exit timestamp is the
\* time of the request and its fee the fee supplied; the other records, their
\* order and their number, and every other document, are as they were.  (A
\* rejected write answers 500 and changes nothing.)
C10_ExitKnownId ==
  [][(last'.op = "putVehicleExit" /\ Matches(disk, last'.id) # {})
       => LET before == Vehicles(disk)
              after == Vehicles(disk')
              i == CHOOSE m \in Matches(disk, last'.id) :
                     \A n \in Matches(disk, last'.id) : m <= n
          IN  \/ last'.status = 500 /\ last'.threw /\ disk' = disk
              \/ /\ last'.status = 200
                 /\ Len(after) = Len(before)
                 /\ \A j \in DOMAIN before : j # i => after[j] = before[j]
                 /\ \A k \in DOMAIN before[i] \ {"exitTime", "fee"} :
                      k \in DOMAIN after[i] /\ after[i][k] = before[i][k]
                 /\ DOMAIN after[i] \subseteq DOMAIN before[i] \cup {"exitTime", "fee"}
                 /\ after[i].exitTime = ToISOString(now')
                 /\ "fee" \in DOMAIN last'.body
                      => "fee" \in DOMAIN after[i] /\ after[i].fee = last'.body.fee
                 /\ \A g \in Files \ {VEHICLES_FILE} : SameFile(disk, disk', g)
                 /\ JsonParse(last'.res) = JRec(after[i])]_vars

C10_Witness ==
  /\ last.op = "putVehicleExit"
  /\ last.status = 200
  /\ "fee" \in DOMAIN last.body
  /\ Len(Vehicles(disk)) = 2
  /\ Vehicles(disk)[1].id = Vehicles(disk)[2].id
  /\ Vehicles(disk)[1].id = last.id
  /\ Field(Vehicles(disk)[1], "fee") = last.body.fee
  /\ "exitTime" \notin DOMAIN Vehicles(disk)[2]

Clients(files) ==
  IF PERMANENT_CLIENTS_FILE \in DOMAIN files
  THEN JsonParse(files[PERMANENT_CLIENTS_FILE]).v ELSE <<>>

\* C11: an update of a permanent client whose identifier a record has answers
\* 200 with the merged record; afterwards the record located (the first with
\* that identifier) has the payload's value for every field of the payload and
\* its previous value for every other field, and no further field; the other
\* records, their order and number, and every other document are as they
\* were.  With an identifier no record has, the answer is 404 and the
\* collection is unchanged.  (A rejected local write answers 500 and changes
\* nothing.)
C11_UpdateMerges ==
  [][last'.op = "putPermanentClient"
       => LET before == Clients(disk)
              after == Clients(disk')
              body == last'.body
              i == FindIndexById(before, last'.id) + 1
          IN  \/ last'.status = 500 /\ last'.threw /\ disk' = disk
              \/ /\ last'.status = 404
                 /\ i = 0
                 /\ after = before
                 /\ JsonParse(last'.res) = JObj([error |-> "Client not found"])
                 /\ \A g \in Files \ {PERMANENT_CLIENTS_FILE} : SameFile(disk, disk', g)
              \/ /\ last'.status = 200
                 /\ i > 0
                 /\ Len(after) = Len(before)
                 /\ \A j \in DOMAIN before : j # i => after[j] = before[j]
                 /\ DOMAIN after[i] = DOMAIN before[i] \cup DOMAIN body
                 /\ \A k \in DOMAIN body : after[i][k] = body[k]
                 /\ \A k \in DOMAIN before[i] \ DOMAIN body : after[i][k] = before[i][k]
                 /\ \A g \in Files \ {PERMANENT_CLIENTS_FILE} : SameFile(disk, disk', g)
                 /\ JsonParse(last'.res) = JRec(after[i])]_vars

C11_Witness ==
  /\ last.op = "putPermanentClient"
  /\ last.status = 200
  /\ last.body = [paymentStatus |-> "paid"]
  /\ Len(Clients(disk)) = 2
  /\ \E i, j \in DOMAIN Clients(disk) :
       /\ i # j
       /\ Clients(disk)[i].id = last.id
       /\ Clients(disk)[i].paymentStatus = "paid"
       /\ Clients(disk)[i].name = "Ali"
       /\ Clients(disk)[j].paymentStatus = "unpaid"

Stats(files) ==
  IF DAILY_STATS_FILE \in DOMAIN files THEN JsonParse(files[DAILY_STATS_FILE]).v ELSE <<>>

OfDate(arr, date) == {i \in DOMAIN arr : Field(arr[i], "date") = date}

\* the records of the dates other than date, in their order
RECURSIVE OtherDates(_, _)
OtherDates(arr, date) ==
  IF arr = <<>> THEN <<>>
  ELSE IF Field(Head(arr), "date") = date THEN OtherDates(Tail(arr), date)
  ELSE <<Head(arr)>> \o OtherDates(Tail(arr), date)

\* C12: when two upserts with the same date are handled one after the other
\* and both answer 200, the collection then holds exactly one record of that
\* date, the second request's body, and the records of the other dates are as
\* they were before the second request; an upsert answered 200 whose date no
\* record had leaves the earlier records in place and adds its body.
C12_UpsertOnePerDate ==
  [][(last'.op = "postDailyStats" /\ last'.status = 200)
       => LET before == Stats(disk)
              after == Stats(disk')
              date == last'.body.date
          IN  /\ OtherDates(after, date) = OtherDates(before, date)
              /\ (last.op = "postDailyStats" /\ last.status = 200 /\ last.body.date = date)
                   => /\ Cardinality(OfDate(after, date)) = 1
                      /\ \A i \in OfDate(after, date) : after[i] = last'.body
              /\ OfDate(before, date) = {}
                   => after = Append(before, last'.body)]_vars

\* C13: in every state the service reaches, no two records of the daily-stats
\* collection have the same date.
C13_OneRecordPerDate ==
  \A i, j \in DOMAIN Stats(disk) :
    Field(Stats(disk)[i], "date") = Field(Stats(disk)[j], "date") => i = j

UniqueIds(arr) ==
  \A i, j \in DOMAIN arr : Field(arr[i], "id") = Field(arr[j], "id") => i = j

\* C14: in every state the service reaches, no two records of the vehicles
\* collection have the same identifier, and no two records of the
\* permanent-clients collection have the same identifier.
C14_IdentifiersUnique == UniqueIds(Vehicles(disk)) /\ UniqueIds(Clients(disk))

Settings(files) == JsonParse(files[SETTINGS_FILE])

\* the attempt matches the credentials of the settings document
CredentialsMatch(body, settings) ==
  /\ "credentials" \in DOMAIN settings.v
  /\ {"username", "password"} \subseteq DOMAIN body
  /\ {"username", "password"} \subseteq DOMAIN settings.v.credentials
  /\ body.username = settings.v.credentials.username
  /\ body.password = settings.v.credentials.password

\* C15: whatever settings document is stored, a login answers 200 only when
\* the username and the password supplied both equal the credentials of that
\* document, and every attempt that does not match them is answered 401 with
\* the message 'Invalid credentials'.  (A login that met a rejected write of
\* the default settings leaves no settings document and is not judged here.)
C15_LoginExactMatchUniformFailure ==
  (last.op = "login" /\ SETTINGS_FILE \in DOMAIN disk)
    => /\ last.status = 200 => CredentialsMatch(last.body, Settings(disk))
       /\ ~CredentialsMatch(last.body, Settings(disk))
            => last.status = 401 /\ last.res = InvalidCredentials

\* C17: a deletion of a permanent client answers 200 {success: true} whether
\* or not a record has the identifier; afterwards no record has it, the
\* records with another identifier are all there, unchanged and in their
\* order, and every other document is as it was; a second deletion of the
\* same identifier right after leaves the collection as the first left it.
\* (A rejected local write answers 500 and changes nothing.)
C17_DeleteIdempotent ==
  [][last'.op = "deletePermanentClient"
       => LET before == Clients(disk)
              after == Clients(disk')
          IN  \/ last'.status = 500 /\ last'.threw /\ disk' = disk
              \/ /\ last'.status = 200
                 /\ JsonParse(last'.res) = JObj([success |-> TRUE])
                 /\ \A i \in DOMAIN after : Field(after[i], "id") # last'.id
                 /\ after = SelectSeq(before, LAMBDA c : Field(c, "id") # last'.id)
                 /\ PERMANENT_CLIENTS_FILE \in DOMAIN disk'
                 /\ \A g \in Files \ {PERMANENT_CLIENTS_FILE} : SameFile(disk, disk', g)
                 /\ (last.op = "deletePermanentClient" /\ last.status = 200
                       /\ last.id = last'.id)
                      => disk' = disk]_vars

\* a deletion answered 200 that left the record of another identifier in place
C17_Witness ==
  /\ last.op = "deletePermanentClient"
  /\ last.status = 200
  /\ last.id = ToString(1)
  /\ Len(Clients(disk)) = 1
  /\ Clients(disk)[1].id = ToString(2)

\* the exit timestamp and the fee of the records, by position
Exits(arr) == [i \in DOMAIN arr |-> <<Field(arr[i], "exitTime"), Field(arr[i], "fee")>>]

\* C18: no vehicle request changes the exit timestamp or the fee of a record
\* that already has its exit timestamp, and none removes a record: the
\* records stay at their positions and the collection never gets shorter.
\* (Requests are handled one after another.)
C18_ExitOnceNeverRemoved ==
  [][LET before == Vehicles(disk)
         after == Vehicles(disk')
     IN  /\ Len(after) >= Len(before)
         /\ \A i \in DOMAIN before :
              /\ Field(after[i], "id") = Field(before[i], "id")
              /\ Field(before[i], "exitTime") # Undefined
                   => Exits(after)[i] = Exits(before)[i]]_vars

\* C19: with the Supabase client configured, a load handled right after a save
\* that answered success: true answers 200 with the snapshot of that save,
\* whatever became of the save's upload.
C19_LoadReturnsLastSaved ==
  (supabase /\ last.op = "backupLoad" /\ last.after.op = "backupSave")
    => last.status = 200 /\ JsonParse(last.res) = last.after.body

\* C16: when the write of a vehicle creation completes and the request is
\* answered 200, the document is the array that request read with its own
\* record pushed: of another creation answered 200 that had read the same
\* array (both reads before either write), nothing is added to it, and the
\* document holds one record more than they read, not two.
C16_LastOverwriteWins ==
  [][\A i \in DOMAIN requests :
       (requests[i].pc = "writeFile" /\ requests'[i].pc = "done"
          /\ requests'[i].status = 200)
         => /\ Vehicles(disk') = Append(requests[i].seen, requests[i].newVehicle)
            /\ \A j \in DOMAIN requests \ {i} :
                 (requests[j].pc = "done" /\ requests[j].status = 200
                    /\ requests[j].op = "postVehicle"
                    /\ requests[j].seen = requests[i].seen)
                   => Len(Vehicles(disk')) = Len(requests[j].seen) + 1]_vars

\* two creations that read the same array were both answered 200, with
\* different records, and the document holds the record of one of them only
C16_Witness ==
  \E i, j \in DOMAIN requests :
    /\ i # j
    /\ \A k \in {i, j} :
         /\ requests[k].op = "postVehicle"
         /\ requests[k].pc = "done"
         /\ requests[k].status = 200
    /\ requests[i].seen = requests[j].seen
    /\ requests[i].newVehicle # requests[j].newVehicle
    /\ Vehicles(disk) = Append(requests[j].seen, requests[j].newVehicle)
    /\ \A k \in DOMAIN Vehicles(disk) : Vehicles(disk)[k] # requests[i].newVehicle

\* C20: when a vehicle creation was answered 200 and every other request
\* handled with it was a GET /api/vehicles, then once all of them have
\* finished the record created is in the document.
C20_ReadsNeverDestroy ==
  \A i \in DOMAIN requests :
    (/\ requests[i].op = "postVehicle"
     /\ requests[i].pc = "done"
     /\ requests[i].status = 200
     /\ \A j \in DOMAIN requests \ {i} :
          requests[j].op = "getVehicles" /\ requests[j].pc = "done")
      => \E k \in DOMAIN Vehicles(disk) : Vehicles(disk)[k] = requests[i].newVehicle

=============================================================================
